---- MODULE Spec2Model ----
(***************************************************************************)
(* Model of scripts/mk_win_dist_cmake.py: the Windows distribution         *)
(* generator.  The module-level globals are the option variables, the      *)
(* file system is ws / tree / archives / licenses / cmd_file, and one      *)
(* action stands for one function called from main().                      *)
(***************************************************************************)
EXTENDS Integers, Sequences, FiniteSets, TLC

VARIABLES
    pc,                  \* "start" | "run" | "done" | "failed": where main() is
    stage,               \* the function main()/build_for_arch() is about to call
    k,                   \* index into InScope of the architecture it is called for
    run,                 \* how many times the script has been started
    trace,               \* the steps executed by this run, in order
    error,               \* message of the exception that ended the run ("" if none)
    FORCE_MK, ASSEMBLY_VERSION, DOTNET_CORE_ENABLED, JAVA_ENABLED,
    ZIP_BUILD_OUTPUTS, GIT_HASH, PYTHON_ENABLED, X86ONLY, X64ONLY, ARM64ONLY,
    git,                 \* what the two git queries of get_git_hash produce
    redist,              \* which tree of files %VCINSTALLDIR%redist holds
    ws,                  \* per architecture: build directory / Makefile present
    tree,                \* per architecture: files under <build_dir>\dist
    archives,            \* per architecture: zip files written into <build_dir>\dist
    licenses,            \* destinations LICENSE.txt was copied to
    cmd_file,            \* content of z3_tmp.cmd
    loc,                 \* state of a stand-alone cp_vs_runtime walk (SpecLocate)
    cb                   \* state of a stand-alone configure-command build (SpecCmd)

optVars == <<FORCE_MK, ASSEMBLY_VERSION, DOTNET_CORE_ENABLED, JAVA_ENABLED,
             ZIP_BUILD_OUTPUTS, GIT_HASH, PYTHON_ENABLED, X86ONLY, X64ONLY, ARM64ONLY>>
envVars == <<git, redist>>
fsVars == <<ws, tree, archives, licenses, cmd_file>>
ctlVars == <<pc, stage, k, run, trace, error>>
vars == <<ctlVars, optVars, envVars, fsVars, loc, cb>>

(***************************************************************************)
(* Bounds of the model.                                                    *)
(***************************************************************************)
MaxRuns == 2
MaxEntries == 2

(***************************************************************************)
(* Strings.  A text that the code searches (paths, file names) is a        *)
(* sequence of one-character strings; Text turns it into a TLA+ string.    *)
(***************************************************************************)
RECURSIVE Text(_)
Text(cs) == IF cs = <<>> THEN "" ELSE cs[1] \o Text(Tail(cs))

RECURSIVE JoinAll(_)
JoinAll(ss) == IF ss = <<>> THEN "" ELSE ss[1] \o JoinAll(Tail(ss))

\* p occurs in s at position i
OccursAt(s, p, i) == \A j \in 1..Len(p) : s[i + j - 1] = p[j]
StartsWith(s, p) == Len(p) <= Len(s) /\ OccursAt(s, p, 1)
ContainsFrom(s, p, from) == \E i \in from..(Len(s) - Len(p) + 1) : OccursAt(s, p, i)
Contains(s, p) == ContainsFrom(s, p, 1)

NoneVal == "<None>"
Truthy(v) == v \notin {NoneVal, ""}

(***************************************************************************)
(* Architecture registry.                                                  *)
(***************************************************************************)
BUILD_DIR == "build-dist"
DIST_DIR == "dist"
ARCHS == <<"x64", "x86", "arm64">>
Archs == {ARCHS[i] : i \in 1..Len(ARCHS)}
PathJoin(a, b) == a \o "\\" \o b
get_build_dir(arch) == PathJoin(BUILD_DIR, arch)

\* Variant of check_build_dir that does not look for the Makefile.
check_build_dir_dir_only(w) == w.dir

check_build_dir(w) == w.dir /\ w.makefile

(***************************************************************************)
(* get_git_hash.                                                           *)
(***************************************************************************)
RECURSIVE SplitFrom(_, _, _, _)
SplitFrom(r, i, cur, acc) ==
    IF i > Len(r) THEN Append(acc, cur)
    ELSE IF r[i] = " " THEN SplitFrom(r, i + 1, "", Append(acc, cur))
    ELSE SplitFrom(r, i + 1, cur \o r[i], acc)
split(r) == SplitFrom(r, 1, "", <<>>)

GitRetrieveError == "Failed to retrieve git hash"
GitOutputError == "Unexpected git output"
GitErrors == {GitRetrieveError, GitOutputError}

\* Variant of get_git_hash that takes the first field whatever the field count.
get_git_hash_lenient(g) ==
    IF g.raises THEN [ok |-> FALSE, val |-> GitRetrieveError]
    ELSE [ok |-> TRUE, val |-> split(g.out)[1]]

get_git_hash(g) ==
    IF g.raises THEN [ok |-> FALSE, val |-> GitRetrieveError]
    ELSE LET ls == split(g.out) IN
         IF Len(ls) # 2 THEN [ok |-> FALSE, val |-> GitOutputError]
         ELSE [ok |-> TRUE, val |-> ls[1]]

(***************************************************************************)
(* get_z3_name.                                                            *)
(***************************************************************************)
get_z3_name_dash(version, githash, g, arch) ==
    LET v == IF Truthy(version) THEN version ELSE "4" IN
    IF githash
    THEN LET h == get_git_hash(g) IN
         IF h.ok THEN [ok |-> TRUE, val |-> "z3-" \o v \o "-" \o h.val \o "-" \o arch \o "-win"]
         ELSE h
    ELSE [ok |-> TRUE, val |-> "z3-" \o v \o "-" \o arch \o "-win"]

get_z3_name(version, githash, g, arch) ==
    LET v == IF Truthy(version) THEN version ELSE "4" IN
    IF githash
    THEN LET h == get_git_hash(g) IN
         IF h.ok THEN [ok |-> TRUE, val |-> "z3-" \o v \o "." \o h.val \o "-" \o arch \o "-win"]
         ELSE h
    ELSE [ok |-> TRUE, val |-> "z3-" \o v \o "-" \o arch \o "-win"]

(***************************************************************************)
(* mk_build_dir: the configure command sequence.                           *)
(***************************************************************************)
VCVARSALL_VS2022 ==
    "call \"C:\\Program Files\\Microsoft Visual Studio\\2022\\Enterprise\\VC\\Auxiliary\\Build\\vcvarsall.bat\" "

ConfigureArch(arch) == IF arch = "arm64" THEN "amd64_arm64" ELSE arch

DotnetFlags == <<" -DZ3_BUILD_DOTNET_BINDINGS=ON", " -DZ3_INSTALL_DOTNET_BINDINGS=ON">>
JavaFlags == <<" -DZ3_BUILD_JAVA_BINDINGS=ON", " -DZ3_INSTALL_JAVA_BINDINGS=ON",
               " -DZ3_JAVA_JAR_INSTALLDIR=java", " -DZ3_JAVA_JNI_LIB_INSTALLDIR=java">>
PythonFlags == <<" -DZ3_BUILD_PYTHON_BINDINGS=ON", " -DZ3_INSTALL_PYTHON_BINDINGS=ON",
                 " -DCMAKE_INSTALL_PYTHON_PKG_DIR=python">>
FixedFlags(install_path) ==
    <<" -DZ3_USE_LIB_GMP=OFF", " -DZ3_BUILD_LIBZ3_SHARED=ON",
      " -DCMAKE_BUILD_TYPE=RelWithDebInfo", " -DCMAKE_INSTALL_PREFIX=" \o install_path,
      " -G \"NMake Makefiles\"", " ../..\n">>

\* Variant of the generator command in which the Java install-directory flags
\* are appended after the fixed flags instead of next to the Java pair.
configure_cmd_java_split(dotnet, java, python, githash, hash) ==
    <<"cmake -S .">>
    \o (IF dotnet THEN DotnetFlags ELSE <<>>)
    \o (IF java THEN SubSeq(JavaFlags, 1, 2) ELSE <<>>)
    \o (IF python THEN PythonFlags ELSE <<>>)
    \o (IF githash THEN <<" -DGIT_HASH=" \o hash>> ELSE <<>>)
    \o FixedFlags(DIST_DIR)
    \o (IF java THEN SubSeq(JavaFlags, 3, 4) ELSE <<>>)

\* The list cmd of mk_build_dir, before it is joined.
configure_cmd(dotnet, java, python, githash, hash) ==
    <<"cmake -S .">>
    \o (IF dotnet THEN DotnetFlags ELSE <<>>)
    \o (IF java THEN JavaFlags ELSE <<>>)
    \o (IF python THEN PythonFlags ELSE <<>>)
    \o (IF githash THEN <<" -DGIT_HASH=" \o hash>> ELSE <<>>)
    \o FixedFlags(DIST_DIR)

\* The list cmds handed to exec_cmds by mk_build_dir.
configure_cmds(arch, cmd) ==
    <<"cd " \o get_build_dir(arch),
      VCVARSALL_VS2022 \o ConfigureArch(arch),
      JoinAll(cmd)>>

(***************************************************************************)
(* mk_z3: the install command sequence.                                    *)
(***************************************************************************)
InstallArch(arch) == IF arch = "arm64" THEN "x64_arm64" ELSE arch

install_cmds(arch) ==
    <<"call \"%VCINSTALLDIR%Auxiliary\\build\\vcvarsall.bat\" " \o InstallArch(arch),
      "cd " \o get_build_dir(arch),
      "nmake install">>

(***************************************************************************)
(* cp_vs_runtime: the runtime locator.  Paths and file names are           *)
(* sequences of characters.                                                *)
(***************************************************************************)
UpperCase == <<"A","B","C","D","E","F","G","H","I","J","K","L","M",
               "N","O","P","Q","R","S","T","U","V","W","X","Y","Z">>
LowerCase == <<"a","b","c","d","e","f","g","h","i","j","k","l","m",
               "n","o","p","q","r","s","t","u","v","w","x","y","z">>
\* os.path.normcase on Windows, character by character: lower case, / to \.
Lower(c) ==
    IF \E i \in 1..Len(UpperCase) : UpperCase[i] = c
    THEN LowerCase[CHOOSE i \in 1..Len(UpperCase) : UpperCase[i] = c]
    ELSE IF c = "/" THEN "\\" ELSE c

DotDll == <<".", "d", "l", "l">>
\* fnmatch(filename, '*.dll'): both sides go through normcase first, then the
\* name must end with the pattern's literal part.
fnmatch_dll(filename) ==
    /\ Len(DotDll) <= Len(filename)
    /\ \A j \in 1..Len(DotDll) :
          Lower(filename[Len(filename) - Len(DotDll) + j]) = Lower(DotDll[j])

\* The literal prefixes of VS_RUNTIME_PATS; each pattern is <prefix>.*\.dll
VS_RUNTIME_PATS == <<<<"v", "c", "o", "m", "p">>,
                     <<"m", "s", "v", "c", "p">>,
                     <<"m", "s", "v", "c", "r">>,
                     <<"v", "c", "r", "u", "n">>>>
\* pat.match(filename): anchored at the start only, case-sensitive.
pat_match(prefix, filename) ==
    StartsWith(filename, prefix) /\ ContainsFrom(filename, DotDll, Len(prefix) + 1)

T_CRT == <<"C", "R", "T">>
T_MP == <<"M", "P">>
T_onecore == <<"o", "n", "e", "c", "o", "r", "e">>
T_debug == <<"d", "e", "b", "u", "g">>
PlatformToken(arch) ==
    CASE arch = "x64" -> <<"x", "6", "4">>
      [] arch = "x86" -> <<"x", "8", "6">>
      [] arch = "arm64" -> <<"a", "r", "m", "6", "4">>

\* Variant of check_root that forgets the "debug" exclusion.
check_root_keeps_debug(platform, root) ==
    /\ Contains(root, platform)
    /\ (Contains(root, T_CRT) \/ Contains(root, T_MP))
    /\ ~Contains(root, T_onecore)

check_root(platform, root) ==
    /\ Contains(root, platform)
    /\ (Contains(root, T_CRT) \/ Contains(root, T_MP))
    /\ ~Contains(root, T_onecore)
    /\ ~Contains(root, T_debug)

Sep == <<"\\">>
\* for pat in VS_RUNTIME_PATS: if pat.match(filename): vs_runtime_files.append(fname)
RECURSIVE MatchPats(_, _, _, _)
MatchPats(i, root, filename, acc) ==
    IF i > Len(VS_RUNTIME_PATS) THEN acc
    ELSE MatchPats(i + 1, root, filename,
                   IF pat_match(VS_RUNTIME_PATS[i], filename)
                   THEN Append(acc, [root |-> root, name |-> filename])
                   ELSE acc)

\* The loop over os.walk(path); walk is the sequence of (root, filename) it yields.
\* Every filename os.walk lists under files is a non-directory, so the
\* os.path.isdir test of line 333 never rejects one.
RECURSIVE WalkFrom(_, _, _, _)
WalkFrom(i, platform, walk, acc) ==
    IF i > Len(walk) THEN acc
    ELSE WalkFrom(i + 1, platform, walk,
                  IF fnmatch_dll(walk[i].name) /\ check_root(platform, walk[i].root)
                  THEN MatchPats(1, walk[i].root, walk[i].name, acc)
                  ELSE acc)

\* The order in which os.walk yields the entries of a tree.
RECURSIVE WalkOrder(_)
WalkOrder(S) ==
    IF S = {} THEN <<>>
    ELSE LET e == CHOOSE x \in S : TRUE IN <<e>> \o WalkOrder(S \ {e})

vs_runtime_files(arch, files) == WalkFrom(1, PlatformToken(arch), WalkOrder(files), <<>>)

NoRuntimeError == "Did not find any runtime files to include"

(***************************************************************************)
(* The redistributable trees the runs are checked against.                 *)
(***************************************************************************)
VCINSTALLDIR == <<"C", ":", "\\", "V", "C", "\\">>
RedistPath == VCINSTALLDIR \o <<"r", "e", "d", "i", "s", "t">>

Seg_x64 == <<"x", "6", "4">>
Seg_x86 == <<"x", "8", "6">>
Seg_arm64 == <<"a", "r", "m", "6", "4">>
Seg_debug == <<"d", "e", "b", "u", "g">>
Seg_onecore == <<"o", "n", "e", "c", "o", "r", "e">>
Kind_CRT == <<"C", "R", "T">>
Kind_OpenMP == <<"O", "p", "e", "n", "M", "P">>
Kind_MFC == <<"M", "F", "C">>
Kind_DebugCRT == <<"D", "e", "b", "u", "g", "C", "R", "T">>
N_vcruntime == <<"v", "c", "r", "u", "n", "t", "i", "m", "e", "1", "4", "0", ".", "d", "l", "l">>
N_vcomp == <<"v", "c", "o", "m", "p", "1", "4", "0", ".", "d", "l", "l">>
N_mfc == <<"m", "f", "c", "1", "4", "0", ".", "d", "l", "l">>
N_upper == <<"v", "c", "o", "m", "p", ".", "d", "l", "l", ".", "D", "L", "L">>

Root(mid, archseg, kind) ==
    RedistPath \o Sep \o (IF mid = <<>> THEN <<>> ELSE mid \o Sep) \o archseg \o Sep \o kind
Entry(root, name) == [root |-> root, name |-> name]

RedistAll ==
    {Entry(Root(<<>>, a, Kind_CRT), N_vcruntime) : a \in {Seg_x64, Seg_x86, Seg_arm64}}
RedistX64Only ==
    {Entry(Root(<<>>, Seg_x64, Kind_CRT), N_vcruntime),
     Entry(Root(<<>>, Seg_x64, Kind_OpenMP), N_vcomp),
     Entry(Root(Seg_debug, Seg_x64, Kind_DebugCRT), N_vcruntime)}
\* redist names one of the two trees
RedistTrees == {"all", "x64-only"}
RedistFiles(r) == IF r = "all" THEN RedistAll ELSE RedistX64Only

(***************************************************************************)
(* Inputs of a run.                                                        *)
(***************************************************************************)
GitResults ==
    {[raises |-> TRUE, out |-> <<>>],
     [raises |-> FALSE, out |-> <<>>],
     [raises |-> FALSE, out |-> <<"0a1b2c3d4e5f", " ", "refs/heads/master">>],
     [raises |-> FALSE, out |-> <<"0a1b2c3d4e5f", " ", "refs/heads/master\n6f7e8d9c0b1a",
                                   " ", "refs/remotes/origin/refs/heads/master">>]}
Versions == {NoneVal, "4.13.1"}
\* (DOTNET_CORE_ENABLED, JAVA_ENABLED, PYTHON_ENABLED) after parse_options
ComponentOptions == {<<TRUE, TRUE, TRUE>>, <<FALSE, FALSE, FALSE>>}
\* (X86ONLY, X64ONLY, ARM64ONLY) after parse_options: --x86-only and --x64-only
\* exclude each other, --arm64-only given first combines with either.
ScopeOptions == {<<FALSE, FALSE, FALSE>>, <<TRUE, FALSE, FALSE>>, <<FALSE, TRUE, FALSE>>,
                 <<FALSE, FALSE, TRUE>>, <<TRUE, FALSE, TRUE>>, <<FALSE, TRUE, TRUE>>}
WsStates == {[dir |-> FALSE, makefile |-> FALSE],
             [dir |-> TRUE, makefile |-> FALSE],
             [dir |-> TRUE, makefile |-> TRUE]}
ExitStatuses == {0, 1}
\* What nmake install puts under <build_dir>\dist.
InstallOutput == {"bin\\libz3.dll", "bin\\z3.exe", "include\\z3.h"}

OptionError == "Invalid command line option"
ConfigureError == "failed to run commands"
MakeError == "Failed to make z3"
CopyError == "shutil.copy failed"

(***************************************************************************)
(* main: which function is called next, and for which architecture.        *)
(***************************************************************************)
Single == X86ONLY \/ X64ONLY \/ ARM64ONLY
InScope ==
    IF X86ONLY THEN <<"x86">>
    ELSE IF X64ONLY THEN <<"x64">>
    ELSE IF ARM64ONLY THEN <<"arm64">>
    ELSE ARCHS
CurArch == InScope[k]

\* build_for_arch: the calls made for one architecture
BuildForArchOrder == <<"mk_build_dir", "mk_z3", "cp_license", "cp_vs_runtime", "mk_zip">>

\* Variant of main's else branch that copies the runtimes before the licenses.
MainOrder_runtime_first == <<"mk_build_dir", "mk_z3", "cp_vs_runtime", "cp_license", "mk_zip">>

\* main, else branch: the loops over ARCHS, one after the other
\* (mk_build_dirs, mk_z3s, cp_licenses, cp_vs_runtimes, mk_zips), each named here
\* by the function its loop calls
MainOrder == <<"mk_build_dir", "mk_z3", "cp_license", "cp_vs_runtime", "mk_zip">>

\* The call that follows position i of order; mk_zip is made only under
\* ZIP_BUILD_OUTPUTS.
RECURSIVE CallAfter(_, _)
CallAfter(order, i) ==
    IF i + 1 > Len(order) THEN "end"
    ELSE IF order[i + 1] = "mk_zip" /\ ~ZIP_BUILD_OUTPUTS THEN CallAfter(order, i + 1)
    ELSE order[i + 1]
StageAfter(order, s) == CallAfter(order, CHOOSE j \in 1..Len(order) : order[j] = s)

At(p, s, i) == [pc |-> p, stage |-> s, k |-> i]

\* Variant of main that runs build_for_arch for each architecture in turn.
After_arch_major(s, i) ==
    LET n == StageAfter(BuildForArchOrder, s) IN
    IF n # "end" THEN At("run", n, i)
    ELSE IF i < Len(InScope) THEN At("run", BuildForArchOrder[1], i + 1)
    ELSE At("done", "end", i)

\* Where main is once the call of stage s for InScope[i] has returned.
After(s, i) ==
    IF Single
    THEN LET n == StageAfter(BuildForArchOrder, s) IN
         IF n = "end" THEN At("done", "end", i) ELSE At("run", n, i)
    ELSE IF i < Len(ARCHS) THEN At("run", s, i + 1)
    ELSE LET n == StageAfter(MainOrder, s) IN
         IF n = "end" THEN At("done", "end", i) ELSE At("run", n, 1)

Continue ==
    LET n == After(stage, k) IN
    /\ pc' = n.pc
    /\ stage' = n.stage
    /\ k' = n.k
    /\ error' = error

\* An exception nobody catches: main ends.
Raise(msg) ==
    /\ pc' = "failed"
    /\ error' = msg
    /\ UNCHANGED <<stage, k>>

Ev(op, arch, res) == [op |-> op, arch |-> arch, res |-> res]

\* Variants of the test of exec_cmds' result.
exec_failed_never(res) == FALSE
exec_failed_inverted(res) == res = 0

\* if exec_cmds(cmds) != 0
exec_failed(res) == res # 0

(***************************************************************************)
(* The state before main() runs.                                           *)
(***************************************************************************)
IdleLoc == [phase |-> "idle"]
IdleCb == [phase |-> "idle"]

InitGlobals ==
    /\ FORCE_MK = FALSE
    /\ ASSEMBLY_VERSION = NoneVal
    /\ DOTNET_CORE_ENABLED = TRUE
    /\ JAVA_ENABLED = TRUE
    /\ ZIP_BUILD_OUTPUTS = FALSE
    /\ GIT_HASH = FALSE
    /\ PYTHON_ENABLED = TRUE
    /\ X86ONLY = FALSE
    /\ X64ONLY = FALSE
    /\ ARM64ONLY = FALSE

Init ==
    /\ pc = "start"
    /\ stage = "none"
    /\ k = 0
    /\ run = 1
    /\ trace = <<>>
    /\ error = ""
    /\ InitGlobals
    /\ git \in GitResults
    /\ redist \in RedistTrees
    /\ ws \in [Archs -> WsStates]
    /\ tree = [a \in Archs |-> {}]
    /\ archives = [a \in Archs |-> {}]
    /\ licenses = {}
    /\ cmd_file = <<>>
    /\ loc = IdleLoc
    /\ cb = IdleCb

(***************************************************************************)
(* main: parse_options, set_build_dir, check_vc_cmd_prompt.                *)
(***************************************************************************)
ParseOptions ==
    /\ pc = "start"
    /\ \E f \in BOOLEAN, v \in Versions, c \in ComponentOptions,
          z \in BOOLEAN, g \in BOOLEAN, sc \in ScopeOptions :
          /\ FORCE_MK' = f
          /\ ASSEMBLY_VERSION' = v
          /\ DOTNET_CORE_ENABLED' = c[1]
          /\ JAVA_ENABLED' = c[2]
          /\ PYTHON_ENABLED' = c[3]
          /\ ZIP_BUILD_OUTPUTS' = z
          /\ GIT_HASH' = g
          /\ X86ONLY' = sc[1]
          /\ X64ONLY' = sc[2]
          /\ ARM64ONLY' = sc[3]
          /\ stage' = IF sc[1] \/ sc[2] \/ sc[3] THEN BuildForArchOrder[1] ELSE MainOrder[1]
    \* set_build_dir: mk_dir of the three build directories
    /\ ws' = [a \in Archs |-> [dir |-> TRUE, makefile |-> ws[a].makefile]]
    /\ pc' = "run"
    /\ k' = 1
    /\ UNCHANGED <<run, trace, error, envVars, tree, archives, licenses, cmd_file, loc, cb>>

\* parse_options raises MKException on an option it does not accept.
ParseOptionsFails ==
    /\ pc = "start"
    /\ pc' = "failed"
    /\ error' = OptionError
    /\ UNCHANGED <<stage, k, run, trace, optVars, envVars, fsVars, loc, cb>>

(***************************************************************************)
(* mk_build_dir(arch)                                                      *)
(***************************************************************************)
MkBuildDir ==
    /\ pc = "run"
    /\ stage = "mk_build_dir"
    /\ LET arch == CurArch
           h == get_git_hash(git) IN
       IF check_build_dir(ws[arch]) /\ ~FORCE_MK
       THEN /\ Continue
            /\ UNCHANGED <<trace, fsVars>>
       ELSE IF GIT_HASH /\ ~h.ok
       THEN /\ ws' = [ws EXCEPT ![arch].dir = TRUE]
            /\ trace' = Append(trace, Ev("mk_dir", arch, 0))
            /\ Raise(h.val)
            /\ UNCHANGED <<tree, archives, licenses, cmd_file>>
       ELSE \E res \in ExitStatuses :
            /\ cmd_file' = configure_cmds(arch,
                               configure_cmd(DOTNET_CORE_ENABLED, JAVA_ENABLED, PYTHON_ENABLED,
                                             GIT_HASH, IF GIT_HASH THEN h.val ELSE ""))
            /\ ws' = [ws EXCEPT ![arch] = [dir |-> TRUE, makefile |-> @.makefile \/ res = 0]]
            /\ trace' = trace \o <<Ev("mk_dir", arch, 0), Ev("configure", arch, res)>>
            /\ IF exec_failed(res) THEN Raise(ConfigureError) ELSE Continue
            /\ UNCHANGED <<tree, archives, licenses>>
    /\ UNCHANGED <<run, optVars, envVars, loc, cb>>

(***************************************************************************)
(* mk_z3(arch)                                                             *)
(***************************************************************************)
MkZ3 ==
    /\ pc = "run"
    /\ stage = "mk_z3"
    /\ \E res \in ExitStatuses :
          /\ cmd_file' = install_cmds(CurArch)
          /\ trace' = Append(trace, Ev("install", CurArch, res))
          /\ tree' = IF res = 0 THEN [tree EXCEPT ![CurArch] = @ \cup InstallOutput] ELSE tree
          /\ IF exec_failed(res) THEN Raise(MakeError) ELSE Continue
    /\ UNCHANGED <<run, optVars, envVars, ws, archives, licenses, loc, cb>>

(***************************************************************************)
(* cp_license(arch)                                                        *)
(***************************************************************************)
CpLicense ==
    /\ pc = "run"
    /\ stage = "cp_license"
    /\ LET name == get_z3_name(ASSEMBLY_VERSION, GIT_HASH, git, CurArch) IN
       IF ~name.ok
       THEN /\ Raise(name.val)
            /\ UNCHANGED <<trace, licenses>>
       ELSE \E copied \in BOOLEAN :
            /\ trace' = Append(trace, Ev("license", CurArch, IF copied THEN 0 ELSE 1))
            /\ licenses' = IF copied THEN licenses \cup {PathJoin(DIST_DIR, name.val)}
                           ELSE licenses
            /\ IF copied THEN Continue ELSE Raise(CopyError)
    /\ UNCHANGED <<run, optVars, envVars, ws, tree, archives, cmd_file, loc, cb>>

(***************************************************************************)
(* cp_vs_runtime(arch)                                                     *)
(***************************************************************************)
CpVsRuntime ==
    /\ pc = "run"
    /\ stage = "cp_vs_runtime"
    /\ \E files \in {vs_runtime_files(CurArch, RedistFiles(redist))} :
       IF files = <<>>
       THEN /\ Raise(NoRuntimeError)
            /\ UNCHANGED <<trace, tree>>
       ELSE /\ tree' = [tree EXCEPT ![CurArch] =
                           @ \cup {PathJoin("bin", Text(files[i].name)) : i \in 1..Len(files)}]
            /\ trace' = Append(trace, Ev("runtime", CurArch, 0))
            /\ Continue
    /\ UNCHANGED <<run, optVars, envVars, ws, archives, licenses, cmd_file, loc, cb>>

(***************************************************************************)
(* mk_zip(arch)                                                            *)
(***************************************************************************)
\* The names bound when line 290 is evaluated: mk_zip's locals and the module's
\* globals and imports.  dist_path is not among them (mk_exception, imported
\* with *, defines the exception class only).
BoundNames == {"ARCHS", "arch", "build_dir", "dist_dir", "dist_name", "old", "zfname",
               "zipout", "DIST_DIR", "BUILD_DIR", "os", "zipfile"}

\* The entries written by the loop of lines 290-292 before it ends or raises:
\* evaluating os.walk(dist_path) raises NameError, which the except clause
\* of line 295 swallows.
zip_entries(files) ==
    IF "dist_path" \in BoundNames THEN {PathJoin(".", f) : f \in files} ELSE {}

MkZip ==
    /\ pc = "run"
    /\ stage = "mk_zip"
    /\ LET name == get_z3_name(ASSEMBLY_VERSION, GIT_HASH, git, CurArch) IN
       IF ~name.ok
       THEN /\ Raise(name.val)
            /\ UNCHANGED <<trace, archives>>
       ELSE IF tree[CurArch] = {}
       \* os.chdir(dist_dir) raises inside the try: nothing is written
       THEN /\ Continue
            /\ trace' = Append(trace, Ev("zip", CurArch, 1))
            /\ UNCHANGED archives
       ELSE LET zfname == name.val \o ".zip" IN
            /\ archives' = [archives EXCEPT ![CurArch] =
                               {z \in @ : z.name # zfname}
                               \cup {[name |-> zfname, entries |-> zip_entries(tree[CurArch])]}]
            /\ trace' = Append(trace, Ev("zip", CurArch, 0))
            /\ Continue
    /\ UNCHANGED <<run, optVars, envVars, ws, tree, licenses, cmd_file, loc, cb>>

(***************************************************************************)
(* The script is started again, with the same command line, on the file    *)
(* system the previous run left.                                           *)
(***************************************************************************)
Rerun ==
    /\ pc \in {"done", "failed"}
    /\ stage # "none"
    /\ run < MaxRuns
    /\ run' = run + 1
    /\ pc' = "run"
    /\ stage' = IF Single THEN BuildForArchOrder[1] ELSE MainOrder[1]
    /\ k' = 1
    /\ trace' = <<>>
    /\ error' = ""
    /\ UNCHANGED <<optVars, envVars, fsVars, loc, cb>>

Next ==
    \/ ParseOptions
    \/ ParseOptionsFails
    \/ MkBuildDir
    \/ MkZ3
    \/ CpLicense
    \/ CpVsRuntime
    \/ MkZip
    \/ Rerun

Spec == Init /\ [][Next]_vars

(***************************************************************************)
(* cp_vs_runtime on its own, over every small redistributable tree.        *)
(***************************************************************************)
LocRoots ==
    {Root(m, a, kd) : m \in {<<>>, Seg_debug, Seg_onecore},
                      a \in {Seg_x64, Seg_arm64},
                      kd \in {Kind_CRT, Kind_OpenMP, Kind_MFC}}
    \cup {Root(<<>>, Seg_x64, Kind_DebugCRT)}
LocNames == {N_vcruntime, N_mfc, N_upper}
LocEntries == {Entry(r, n) : r \in LocRoots, n \in LocNames}
LocTrees == {{}} \cup {{f[i] : i \in 1..MaxEntries} : f \in [1..MaxEntries -> LocEntries]}

MainIdle ==
    /\ pc = "idle"
    /\ stage = "none"
    /\ k = 0
    /\ run = 1
    /\ trace = <<>>
    /\ error = ""
    /\ InitGlobals
    /\ git = [raises |-> FALSE, out |-> <<>>]
    /\ redist = "all"
    /\ ws = [a \in Archs |-> [dir |-> FALSE, makefile |-> FALSE]]
    /\ tree = [a \in Archs |-> {}]
    /\ archives = [a \in Archs |-> {}]
    /\ licenses = {}
    /\ cmd_file = <<>>

InitLocate ==
    /\ MainIdle
    /\ cb = IdleCb
    /\ loc \in {[phase |-> "ready", arch |-> a, files |-> t, result |-> <<>>, bin |-> {}] :
                    a \in Archs, t \in LocTrees}

\* cp_vs_runtime(arch): the walk, the test of line 335, the copies into bin.
Locate ==
    /\ loc.phase = "ready"
    /\ \E found \in {vs_runtime_files(loc.arch, loc.files)} :
       loc' = [loc EXCEPT
                  !.phase = IF found = <<>> THEN "failed" ELSE "copied",
                  !.result = found,
                  !.bin = {Text(found[i].name) : i \in 1..Len(found)}]
    /\ UNCHANGED <<ctlVars, optVars, envVars, fsVars, cb>>

NextLocate == Locate

SpecLocate == InitLocate /\ [][NextLocate]_vars

(***************************************************************************)
(* The configure command of mk_build_dir on its own, over every            *)
(* combination of the component options.                                   *)
(***************************************************************************)
Components == {"dotnet", "java", "python"}

InitCmd ==
    /\ MainIdle
    /\ loc = IdleLoc
    /\ cb \in {[phase |-> "ready", on |-> on, githash |-> gh, g |-> g, arch |-> a,
                cmd |-> <<>>, cmds |-> <<>>, prev |-> <<>>, enabled |-> "none"] :
                   on \in SUBSET Components, gh \in BOOLEAN, g \in GitResults, a \in Archs}

\* Lines 182-209 under the options held in c.
built(c) ==
    LET h == get_git_hash(c.g)
        cmd == configure_cmd("dotnet" \in c.on, "java" \in c.on, "python" \in c.on,
                             c.githash, IF c.githash THEN h.val ELSE "")
    IN IF c.githash /\ ~h.ok
       THEN [c EXCEPT !.phase = "failed", !.cmd = <<>>, !.cmds = <<>>]
       ELSE [c EXCEPT !.phase = "built", !.cmd = cmd, !.cmds = configure_cmds(c.arch, cmd)]

BuildCmd ==
    /\ cb.phase = "ready"
    /\ cb' = built(cb)
    /\ UNCHANGED <<ctlVars, optVars, envVars, fsVars, loc>>

\* The same command line without the --no<component> option of one component.
EnableComponent ==
    /\ cb.phase = "built"
    /\ \E c \in Components \ cb.on :
          cb' = built([cb EXCEPT !.on = @ \cup {c}, !.prev = cb.cmd, !.enabled = c])
    /\ UNCHANGED <<ctlVars, optVars, envVars, fsVars, loc>>

NextCmd ==
    \/ BuildCmd
    \/ EnableComponent

SpecCmd == InitCmd /\ [][NextCmd]_vars

(***************************************************************************)
(* Properties.                                                             *)
(***************************************************************************)
Idx == 1..Len(trace)
Sessions == {"configure", "install"}
Packaging == {"license", "runtime", "zip"}
FailedSession(i) == trace[i].op \in Sessions /\ trace[i].res # 0
Ended == pc \in {"done", "failed"}
\* The git output is exactly "<hash> <ref-name>": one separator, two fields.
GitPair(g) == ~g.raises /\ Cardinality({i \in 1..Len(g.out) : g.out[i] = " "}) = 1
ArchIndex(a) == CHOOSE i \in 1..Len(ARCHS) : ARCHS[i] = a
StageRank(op) ==
    CASE op \in {"mk_dir", "configure"} -> 1
      [] op = "install" -> 2
      [] op = "license" -> 3
      [] op = "runtime" -> 4
      [] op = "zip" -> 5

\* C1 as stated: with all architectures in scope, once the run has ended, a
\* failed configure or install session of one architecture has not kept any
\* other architecture from getting its install session (unless that other
\* architecture failed a session of its own).
C1_Original ==
    (~Single /\ Ended) =>
        \A i \in Idx : FailedSession(i) =>
            \A b \in Archs \ {trace[i].arch} :
                \E j \in Idx : /\ trace[j].arch = b
                               /\ \/ trace[j].op = "install"
                                  \/ FailedSession(j)

\* C1 amended: with all architectures in scope, a failed configure or install
\* session ends the whole run with the MKException of that step: it is the
\* last step of the run, for every architecture.
C1_Amended ==
    ~Single =>
        \A i \in Idx : FailedSession(i) =>
            /\ i = Len(trace)
            /\ pc = "failed"
            /\ error = (IF trace[i].op = "configure" THEN ConfigureError ELSE MakeError)

C1_Witness ==
    /\ ~Single
    /\ pc = "failed"
    /\ Len(trace) >= 2
    /\ trace[Len(trace)] = Ev("install", "x64", 1)
    /\ \E i \in Idx : trace[i] = Ev("configure", "arm64", 0)
    /\ \A i \in Idx : trace[i].arch = "x64" \/ trace[i].op \notin {"install"} \cup Packaging

\* C2 as stated: no step of architecture B occurs between two steps of
\* architecture A.
C2_Original ==
    \A i \in Idx, j \in Idx, l \in Idx :
        (i < j /\ j < l /\ trace[i].arch = trace[l].arch) => trace[j].arch = trace[i].arch

\* C2 amended: the steps of a run are ordered by stage first (configure,
\* install, license copy, runtime copy, archive) and by position in ARCHS
\* within a stage: with several architectures in scope each stage is run for
\* all of them before the next stage begins.
C2_Amended ==
    \A i \in Idx, j \in Idx :
        i < j =>
            \/ StageRank(trace[i].op) < StageRank(trace[j].op)
            \/ /\ StageRank(trace[i].op) = StageRank(trace[j].op)
               /\ ArchIndex(trace[i].arch) <= ArchIndex(trace[j].arch)

C2_Witness ==
    /\ ~Single
    /\ \E i \in Idx, j \in Idx, l \in Idx :
          /\ i < j /\ j < l
          /\ trace[i] = Ev("configure", "x64", 0)
          /\ trace[j] = Ev("configure", "x86", 0)
          /\ trace[l] = Ev("install", "x64", 0)

\* C3 as stated: when the revision is requested and git does not yield a
\* (hash, ref-name) pair, no configure or install session is ever spawned and
\* the run fails with the revision-resolution error.
C3_Original ==
    (GIT_HASH /\ ~GitPair(git)) =>
        /\ \A i \in Idx : trace[i].op \notin Sessions
        /\ pc # "done"
        /\ pc = "failed" => error \in GitErrors

\* C3 amended: when the revision is requested and git does not yield a pair,
\* the run never completes, no configure session and no packaging step is ever
\* run, and an install session is spawned only when every workspace in scope
\* is already configured and FORCE_MK is off; the run then fails with the
\* revision error at the first license copy, or with the install error.
C3_Amended ==
    (GIT_HASH /\ ~GitPair(git)) =>
        /\ \A i \in Idx : trace[i].op # "configure" /\ trace[i].op \notin Packaging
        /\ pc # "done"
        /\ (\E i \in Idx : trace[i].op = "mk_dir") =>
               /\ pc = "failed"
               /\ error \in GitErrors
               /\ \A i \in Idx : trace[i].op # "install"
        /\ (\E i \in Idx : trace[i].op = "install") =>
               /\ ~FORCE_MK
               /\ \A i \in 1..Len(InScope) : ws[InScope[i]].dir /\ ws[InScope[i]].makefile
        /\ pc = "failed" => error \in GitErrors \cup {MakeError}

C3_Witness ==
    /\ GIT_HASH
    /\ ~GitPair(git)
    /\ pc = "failed"
    /\ error \in GitErrors
    /\ stage = "cp_license"
    /\ \E i \in Idx : trace[i] = Ev("install", "x64", 0)

\* What a call of mk_build_dir for CurArch did, read off the step it took.
C4_Needed == ~(ws[CurArch].dir /\ ws[CurArch].makefile) \/ FORCE_MK
C4_RanMkDir ==
    /\ Len(trace') > Len(trace)
    /\ trace'[Len(trace) + 1] = Ev("mk_dir", CurArch, 0)
C4_RanSession ==
    /\ Len(trace') = Len(trace) + 2
    /\ trace'[Len(trace) + 2].op = "configure"
    /\ trace'[Len(trace) + 2].arch = CurArch

\* C4 as stated: the configure step, directory creation plus configure
\* session, is run by mk_build_dir if and only if the workspace is not
\* configured or FORCE_MK is set.
C4_Original ==
    [][(pc = "run" /\ stage = "mk_build_dir") =>
           (C4_Needed <=> (C4_RanMkDir /\ C4_RanSession))]_vars

\* C4 amended: mk_build_dir enters the configure step (the directory
\* creation) if and only if the workspace is not configured or FORCE_MK is
\* set, and then spawns the configure session unless the revision is requested
\* and cannot be resolved; on a configured workspace without FORCE_MK it
\* changes nothing on the file system and spawns nothing, at every call.
C4_Amended ==
    [][(pc = "run" /\ stage = "mk_build_dir") =>
           /\ C4_Needed <=> C4_RanMkDir
           /\ C4_RanSession <=> (C4_Needed /\ (GIT_HASH => GitPair(git)))
           /\ ~C4_Needed => (UNCHANGED <<fsVars, trace>> /\ pc' # "failed")]_vars

C4_Witness ==
    /\ run = 2
    /\ pc = "run"
    /\ stage = "mk_z3"
    /\ trace = <<>>
    /\ ~FORCE_MK
    /\ cmd_file # <<>>

\* C5: once mk_zip has written an archive, every file of the architecture's
\* install tree is an entry of it under its path relative to the tree.
C5_RoundTrip ==
    \A a \in Archs : \A z \in archives[a] : \A f \in tree[a] :
        f \in z.entries \/ PathJoin(".", f) \in z.entries

\* The names C6 speaks of.
C6_Version == IF ASSEMBLY_VERSION \in {NoneVal, ""} THEN "4" ELSE ASSEMBLY_VERSION
C6_Names(a, sep) ==
    IF GIT_HASH
    THEN "z3-" \o C6_Version \o sep \o git.out[1] \o "-" \o a \o "-win"
    ELSE "z3-" \o C6_Version \o "-" \o a \o "-win"
C6_Named(sep) ==
    /\ \A a \in Archs : \A z \in archives[a] : z.name = C6_Names(a, sep) \o ".zip"
    /\ \A l \in licenses : \E a \in Archs : l = "dist\\" \o C6_Names(a, sep)
    /\ (~GIT_HASH /\ ASSEMBLY_VERSION = NoneVal) =>
           \A z \in archives["x64"] : z.name = "z3-4-x64-win.zip"

\* C6 as stated: the name is z3-<version>-<arch>-win.zip, and
\* z3-<version>-<revhash>-<arch>-win.zip when the revision is requested.
C6_Original == C6_Named("-")

\* C6 amended: the name is z3-<version>-<arch>-win.zip, and
\* z3-<version>.<revhash>-<arch>-win.zip (a dot between version and hash) when
\* the revision is requested; the version is "4" when none is given.
C6_Amended == C6_Named(".")

C6_Witness ==
    /\ GIT_HASH
    /\ ASSEMBLY_VERSION = NoneVal
    /\ \E z \in archives["arm64"] : z.name = "z3-4.0a1b2c3d4e5f-arm64-win.zip"

\* The files C7 says are selected; the name test is fnmatch's, which ignores
\* case on Windows.
C7_Selectable(arch, e) ==
    LET n == Len(e.name)
        token == CASE arch = "x64" -> <<"x", "6", "4">>
                   [] arch = "x86" -> <<"x", "8", "6">>
                   [] arch = "arm64" -> <<"a", "r", "m", "6", "4">>
    IN /\ n >= 4
       /\ e.name[n - 3] = "."
       /\ e.name[n - 2] \in {"d", "D"}
       /\ e.name[n - 1] \in {"l", "L"}
       /\ e.name[n] \in {"l", "L"}
       /\ Contains(e.root, token)
       /\ Contains(e.root, <<"C", "R", "T">>) \/ Contains(e.root, <<"M", "P">>)
       /\ ~Contains(e.root, <<"o", "n", "e", "c", "o", "r", "e">>)
       /\ ~Contains(e.root, <<"d", "e", "b", "u", "g">>)
       /\ \E pre \in {<<"v", "c", "o", "m", "p">>, <<"m", "s", "v", "c", "p">>, <<"m", "s", "v", "c", "r">>, <<"v", "c", "r", "u", "n">>} :
             /\ StartsWith(e.name, pre)
             /\ ContainsFrom(e.name, <<".", "d", "l", "l">>, Len(pre) + 1)
C7_Selected == {loc.result[i] : i \in 1..Len(loc.result)}

\* C7: cp_vs_runtime selects exactly the .dll files whose directory path
\* contains the architecture token and "CRT" or "MP", contains neither
\* "onecore" nor "debug", and whose name matches one of the four patterns;
\* it raises if and only if there is none; a file under a debug path is never
\* selected and an arm64 query over x64 directories fails.
C7_Locator ==
    loc.phase \in {"copied", "failed"} =>
        /\ C7_Selected = {e \in loc.files : C7_Selectable(loc.arch, e)}
        /\ Len(loc.result) = Cardinality(C7_Selected)
        /\ loc.phase = "failed" <=> \A e \in loc.files : ~C7_Selectable(loc.arch, e)
        /\ \A e \in C7_Selected : ~Contains(e.root, <<"d", "e", "b", "u", "g">>)
        /\ (loc.arch = "arm64" /\ \A e \in loc.files : ~Contains(e.root, <<"a", "r", "m", "6", "4">>))
               => loc.phase = "failed"

C7_Witness ==
    /\ loc.phase = "copied"
    /\ loc.arch = "x64"
    /\ Entry(Root(<<>>, Seg_x64, Kind_CRT), N_vcruntime) \in C7_Selected
    /\ Entry(Root(Seg_debug, Seg_x64, Kind_CRT), N_vcruntime) \in loc.files \ C7_Selected

\* C8: after a failed configure session of an architecture no install,
\* license copy, runtime copy or archive step is run for it, and after a failed
\* install session no packaging step is run for it.
C8_Terminal ==
    \A i \in Idx, j \in Idx :
        (i < j /\ FailedSession(i) /\ trace[j].arch = trace[i].arch) =>
            /\ trace[j].op \notin Packaging
            /\ trace[i].op = "configure" => trace[j].op # "install"

C8_Witness ==
    /\ ~Single
    /\ pc = "failed"
    /\ \E i \in Idx : trace[i] = Ev("install", "x86", 1)
    /\ \E i \in Idx : trace[i] = Ev("configure", "x86", 0)

\* C9 as stated: for every architecture the runtime copy precedes the
\* license copy and both precede the archive step.
C9_Original ==
    \A i \in Idx, j \in Idx :
        trace[i].arch = trace[j].arch =>
            /\ (trace[i].op = "runtime" /\ trace[j].op = "license") => i < j
            /\ (trace[i].op \in {"runtime", "license"} /\ trace[j].op = "zip") => i < j

\* C9 amended: for every architecture the license copy precedes the runtime
\* copy and both precede the archive step; a runtime copy is only made after
\* the license copy, an archive only after the runtime copy.
C9_Amended ==
    /\ \A i \in Idx, j \in Idx :
           trace[i].arch = trace[j].arch =>
               /\ (trace[i].op = "license" /\ trace[j].op = "runtime") => i < j
               /\ (trace[i].op \in {"runtime", "license"} /\ trace[j].op = "zip") => i < j
    /\ \A j \in Idx :
           /\ trace[j].op = "runtime" =>
                  \E i \in 1..(j - 1) : trace[i] = Ev("license", trace[j].arch, 0)
           /\ trace[j].op = "zip" =>
                  \E i \in 1..(j - 1) : trace[i] = Ev("runtime", trace[j].arch, 0)

C9_Witness ==
    /\ ~Single
    /\ \E i \in Idx, j \in Idx, l \in Idx :
          /\ i < j /\ j < l
          /\ trace[i] = Ev("license", "x86", 0)
          /\ trace[j] = Ev("runtime", "x86", 0)
          /\ trace[l] = Ev("zip", "x86", 0)

\* The flags C10 associates with a component.
C10_Pair(c) ==
    CASE c = "dotnet" -> <<" -DZ3_BUILD_DOTNET_BINDINGS=ON", " -DZ3_INSTALL_DOTNET_BINDINGS=ON">>
      [] c = "java" -> <<" -DZ3_BUILD_JAVA_BINDINGS=ON", " -DZ3_INSTALL_JAVA_BINDINGS=ON">>
      [] c = "python" -> <<" -DZ3_BUILD_PYTHON_BINDINGS=ON", " -DZ3_INSTALL_PYTHON_BINDINGS=ON">>
C10_InstallDirs(c) ==
    CASE c = "dotnet" -> <<>>
      [] c = "java" -> <<" -DZ3_JAVA_JAR_INSTALLDIR=java", " -DZ3_JAVA_JNI_LIB_INSTALLDIR=java">>
      [] c = "python" -> <<" -DCMAKE_INSTALL_PYTHON_PKG_DIR=python">>
C10_Inserted(block) ==
    \E p \in 0..Len(cb.prev) :
        cb.cmd = SubSeq(cb.prev, 1, p) \o block \o SubSeq(cb.prev, p + 1, Len(cb.prev))
C10_Enabled == cb.phase = "built" /\ cb.enabled # "none"

\* C10 as stated: the command with a component enabled is the command with
\* it disabled plus exactly its two flags, build-enable and install-enable.
C10_Original == C10_Enabled => C10_Inserted(C10_Pair(cb.enabled))

\* C10 amended: the command with a component enabled is the command with it
\* disabled plus one contiguous block: its build-enable and install-enable
\* flags followed by its install-directory flags (none for .NET, two for
\* Java, one for Python); the other flags keep their places.
C10_Amended ==
    C10_Enabled => C10_Inserted(C10_Pair(cb.enabled) \o C10_InstallDirs(cb.enabled))

C10_Witness ==
    /\ C10_Enabled
    /\ cb.enabled = "java"
    /\ cb.on = Components
    /\ cb.githash
    /\ Len(cb.cmd) = Len(cb.prev) + 4

====
